---- MODULE Spec2Model ----
(***************************************************************************)
(* Job construction of pywren_ibm_cloud (job/job.py): create_map_job,      *)
(* create_reduce_job, _create_job and _inject_in_runtime_docker_image.     *)
(* A thread is one caller of the job-construction functions; it makes one  *)
(* call after another.  The storage bucket and the working directory       *)
(* (ext_mod_path, custom.dockerfile) are shared by all threads.            *)
(***************************************************************************)
EXTENDS Integers, Sequences, FiniteSets, TLC

\* ---------------------------------------------------------------- bounds
NumThreads == 2      \* caller threads of the concurrent specification
MaxIter == 2         \* longest input iterable of a map call
MaxFutures == 3      \* longest list of map futures of a reduce call

Threads == 1..NumThreads
SeqThreads == {1}

\* ------------------------------------------------------------- constants
MAX_AGG_DATA_SIZE == 4
JOBS_PREFIX == "pywren.jobs"
MiB == 1024 * 1024
MOD_PATH == "ext_mod_path"
ext_docker_file == "custom.dockerfile"
REDUCE_MARKER == "__PW_REDUCE_JOB"

\* ------------------------------------------------------- python helpers
Min(a, b) == IF a < b THEN a ELSE b

RECURSIVE SumSeq(_)
SumSeq(s) == IF s = <<>> THEN 0 ELSE Head(s) + SumSeq(Tail(s))

\* s[a:b] of a python list: the bounds are clamped to the list
PySlice(s, a, b) ==
    LET lo == Min(a, Len(s))
        hi == Min(b, Len(s))
    IN  IF hi <= lo THEN <<>> ELSE SubSeq(s, lo + 1, hi)

\* a python value of an environment dict: its type and its printed form
Val(type, text) == [t |-> type, v |-> text]
PyTrue == Val("bool", "True")

\* str(x)
Str(x) == Val("str", x.v)

\* dicts are functions from their keys
EmptyDict == [k \in {} |-> PyTrue]
DictUpdate(d, e) ==
    [k \in (DOMAIN d) \cup (DOMAIN e) |-> IF k \in DOMAIN e THEN e[k] ELSE d[k]]

\* a python value that is None or a collection of module names
NoneNames == [s |-> {}, none |-> TRUE]
Names(s) == [s |-> s, none |-> FALSE]
\* the truth value of such a value: None and the empty collection are false
Truthy(l) == ~l.none /\ l.s # {}

\* utils.convert_bools_to_string: the values of the dict as strings
convert_bools_to_string(d) == [k \in DOMAIN d |-> Str(d[k])]

\* hashlib.md5(source).hexdigest() on the sources of the model
md5(src) == CASE src = "src_f" -> "d41f"
              [] src = "src_g" -> "9a0c"
              [] OTHER -> "ffff"

\* "{}:{}".format(image, tag): an image name is the list of its parts
ImageName(image, tag) == Append(image, tag)

\* storage.utils.create_agg_data_key / create_func_key
create_agg_data_key(prefix, executor_id, job_id) ==
    <<prefix, executor_id, job_id, "aggdata.pickle">>
create_func_key(prefix, executor_id, job_id) ==
    <<prefix, executor_id, job_id, "func.pickle">>

\* utils.agg_data: one (offset, length) range per serialized blob
RECURSIVE AggRanges(_, _)
AggRanges(sizes, pos) ==
    IF sizes = <<>> THEN <<>>
    ELSE <<<<pos, Head(sizes)>>>> \o AggRanges(Tail(sizes), pos + Head(sizes))
agg_data(sizes) == AggRanges(sizes, 0)

\* job.partitioner.create_partitions: ceil(S/C) partitions per object, the
\* whole object when no chunk size is given
PartsOf(size, chunk) ==
    IF chunk = 0 THEN 1 ELSE (size + chunk - 1) \div chunk
PartsPerObject(sizes, chunk) ==
    [i \in 1..Len(sizes) |-> PartsOf(sizes[i], chunk)]
RECURSIVE Partitions(_, _)
Partitions(ppo, obj) ==
    IF ppo = <<>> THEN <<>>
    ELSE [k \in 1..Head(ppo) |-> [obj |-> obj, part |-> k]]
         \o Partitions(Tail(ppo), obj + 1)
create_partitions(sizes, chunk) == Partitions(PartsPerObject(sizes, chunk), 1)

\* the call arguments of a map over plain values
PlainArgs(n) == [i \in 1..n |-> [obj |-> i, part |-> 0]]


\* ------------------------------------------------------------ the state
VARIABLES
    pc,          \* per thread: the line of job.py the call is at, or "idle"
    inp,         \* per thread: the arguments of the call in progress (or last)
    parts,       \* per thread: parts_per_object, local of create_map_job
    data,        \* per thread: the list of call arguments given to _create_job
    jd,          \* per thread: job_description
    ser,         \* per thread: what the serializer produced (sizes, mod_paths)
    modIdx,      \* per thread: position of the loop over mod_paths
    result,      \* per thread: how the last call ended, and where it raised
    puts,        \* per thread: keys the call has put into storage so far
    built,       \* per thread: the build context used by the call's image build
    config,      \* config['pywren'], read-only after the session is set up
    storage,     \* keys present in the storage bucket
    mod_path,    \* the file system entry ext_mod_path of the working directory
    dockerfile,  \* content of custom.dockerfile of the working directory
    \* lithops/localhost/localhost.py: one LocalhostHandler and its storage
    lh_env,      \* the handler's environment: "none" before __init__
    lh_pc,       \* the line of run_job or create_runtime the handler is at
    lh_job,      \* the job id of the run_job call in progress
    lh_fs,       \* STORAGE_DIR: the directory, its lithops copy, the handler file
    job_file,    \* per job id: the state of its job.json
    procs,       \* the execution commands launched so far
    setups,      \* how many times env.setup() has been executed
    lh_result,   \* how the handler's last operation ended
    \* compute/compute.py: one Compute dispatcher
    cmp,         \* the dispatcher: whether it exists and the backend it holds
    cmp_call,    \* the last call the backend received
    cmp_result,  \* what the dispatcher's last operation gave the caller
    \* job.py clean_job
    cl_pc,       \* the line of clean_job the caller is at
    cl_tmp,      \* the pickled jobs_to_clean in the temporary file
    cl_child,    \* the process running the cleanup script
    cl_result    \* how the last clean_job call ended

jobVars == <<pc, inp, parts, data, jd, ser, modIdx, result, puts, built,
             config, mod_path, dockerfile>>
lhVars == <<lh_env, lh_pc, lh_job, lh_fs, job_file, procs, setups, lh_result>>
cmpVars == <<cmp, cmp_call, cmp_result>>
clVars == <<cl_pc, cl_tmp, cl_child, cl_result>>
\* what the job-construction functions never touch
otherVars == <<lhVars, cmpVars, clVars>>
vars == <<jobVars, storage, lhVars, cmpVars, clVars>>

\* ---------------------------------------------------------- input values
Funcs == { [src |-> "src_f", fname |-> "f"], [src |-> "src_g", fname |-> "g"] }

NoneEnv == [d |-> EmptyDict, none |-> TRUE]
MixedEnv == [d |-> ("A" :> PyTrue @@ "B" :> Val("int", "1") @@ "C" :> Val("str", "s")),
             none |-> FALSE]
ExtraEnvs == { NoneEnv, [d |-> EmptyDict, none |-> FALSE], MixedEnv }

\* config['pywren']: has_limit says whether the key data_limit is present;
\* env is the configured execution environment, which job.py never reads
Configs ==
    { [runtime |-> <<"rt">>, env |-> e, has_limit |-> l[1], data_limit |-> l[2],
       runtime_timeout |-> 600, runtime_memory |-> 256] :
        e \in {"default", "docker"}, l \in {<<FALSE, 0>>, <<TRUE, 0>>, <<TRUE, 1>>} }

ObjSizes == {1, 2}
ChunkSizes == {0, 1}      \* 0 stands for obj_chunk_size=None
IterDatas == UNION { [1..n -> ObjSizes] : n \in 0..MaxIter }

\* the modules the serializer can report, with os.path.isdir of each
DirModule == [name |-> "pkg", isdir |-> TRUE]
FileModule == [name |-> "mod.py", isdir |-> FALSE]
ModPaths == { <<>>, <<DirModule, FileModule>>, <<FileModule, DirModule>> }
SmallBlob == 1
BigBlob == 3 * MiB
SerSizes == { <<SmallBlob, SmallBlob>>, <<SmallBlob, BigBlob>>, <<BigBlob, SmallBlob>> }

ExecutorId(t) == "exec"
JobId(t) == IF t = 1 THEN "M000" ELSE "M001"

\* ------------------------------------------------------ the empty values
NoInput == [kind |-> "none"]
NoJob == [executor_id |-> "", job_id |-> "", runtime_memory |-> 0,
          keys |-> {}, runtime_name |-> <<>>,
          execution_timeout |-> 0, function_name |-> "", extra_env |-> EmptyDict,
          total_calls |-> 0, invoke_pool_threads |-> 0,
          data_key |-> <<>>, data_ranges |-> <<>>,
          func_key |-> <<>>, parts_per_object |-> <<>>]
NoSer == [data_strs |-> <<>>, data_size_bytes |-> 0, func_module_size_bytes |-> 0,
          mod_paths |-> <<>>, inc_modules |-> NoneNames, exc_modules |-> {}]
NoBuild == [image |-> <<>>, kind |-> "absent", done |-> FALSE, from |-> <<>>,
            entries |-> {}]
NoPath == [kind |-> "absent", entries |-> {}]
Outcome(kind, at) == [kind |-> kind, at |-> at]

\* the other components before they are used
JobIds == {"M000", "M001"}
NoStorageDir == [dir |-> FALSE, lithops |-> FALSE, handler |-> FALSE]
NoDispatcher == [handler |-> "None", state |-> "none", backend |-> ""]
NoCall == [handler |-> "None", op |-> "", args |-> <<>>, kwargs |-> <<>>]
CallResult(kind, op, args, value, backend_value) ==
    [kind |-> kind, op |-> op, args |-> args, value |-> value,
     backend_value |-> backend_value]
NoCallResult == CallResult("none", "", <<>>, "None", "None")
NoChild == [state |-> "none", jobs |-> {}, cloudobjects |-> FALSE, jobs_path |-> 0]
OtherInit ==
    /\ lh_env = "none"
    /\ lh_pc = "idle"
    /\ lh_job = ""
    /\ lh_fs = NoStorageDir
    /\ job_file = [j \in JobIds |-> "absent"]
    /\ procs = {}
    /\ setups = 0
    /\ lh_result = Outcome("none", "")
    /\ cmp = NoDispatcher
    /\ cmp_call = NoCall
    /\ cmp_result = NoCallResult
    /\ cl_pc = "idle"
    /\ cl_tmp = {}
    /\ cl_child = NoChild
    /\ cl_result = Outcome("none", "")

\* the state before the first call, for a set of possible configurations
InitWith(configs) ==
    /\ pc = [t \in Threads |-> "idle"]
    /\ inp = [t \in Threads |-> NoInput]
    /\ parts = [t \in Threads |-> <<>>]
    /\ data = [t \in Threads |-> <<>>]
    /\ jd = [t \in Threads |-> NoJob]
    /\ ser = [t \in Threads |-> NoSer]
    /\ modIdx = [t \in Threads |-> 0]
    /\ result = [t \in Threads |-> Outcome("none", "")]
    /\ puts = [t \in Threads |-> {}]
    /\ built = [t \in Threads |-> NoBuild]
    /\ config \in configs
    /\ storage = {}
    /\ mod_path = NoPath
    /\ dockerfile = <<>>
    /\ OtherInit

Init == InitWith(Configs)

\* ------------------------------------------------- how a call can end
\* an exception leaves the call: nothing is returned, the locals are dropped
Raise(t) ==
    /\ pc' = [pc EXCEPT ![t] = "idle"]
    /\ result' = [result EXCEPT ![t] = Outcome("raised", pc[t])]
    /\ jd' = [jd EXCEPT ![t] = NoJob]
    /\ data' = [data EXCEPT ![t] = <<>>]
    /\ parts' = [parts EXCEPT ![t] = <<>>]
    /\ ser' = [ser EXCEPT ![t] = NoSer]
    /\ modIdx' = [modIdx EXCEPT ![t] = 0]

\* job.py:144-145 "if not data: return []", and job.py:74-77 in the map wrapper
ReturnEmpty(t, ppo) ==
    IF ppo # <<>>
    THEN Raise(t)        \* job_description['parts_per_object'] on a list
    ELSE /\ pc' = [pc EXCEPT ![t] = "idle"]
         /\ result' = [result EXCEPT ![t] = Outcome("empty", "")]
         /\ jd' = [jd EXCEPT ![t] = NoJob]
         /\ data' = [data EXCEPT ![t] = <<>>]
         /\ parts' = [parts EXCEPT ![t] = <<>>]
         /\ ser' = [ser EXCEPT ![t] = NoSer]
         /\ modIdx' = [modIdx EXCEPT ![t] = 0]


\* ------------------------------------------------ create_map_job (35-77)
\* The rabbitmq resources of job.py:48-50 belong to the progress monitor and
\* are not part of the state.
\* faulty variant of the environment copy: the values are not converted
ExtEnv_Unconverted(extra_env) ==
    IF extra_env.none THEN EmptyDict ELSE extra_env.d

\* job.py:139-141: the copy of extra_env, its values converted when non-empty
ExtEnv(extra_env) ==
    LET d == IF extra_env.none THEN EmptyDict ELSE extra_env.d
    IN  IF DOMAIN d # {} THEN convert_bools_to_string(d) ELSE d

\* faulty variant of the emptiness test: only None counts as no data
IsEmpty_NoneOnly(d) == FALSE

\* job.py:144 "not data"
IsEmpty(d) == Len(d) = 0

\* faulty variant of the call count: the function counted with the data
TotalCalls_WithFunc(d) == Len(d) + 1

\* job.py:156
TotalCalls(d) == Len(d)

\* job.py:147-148
ExecutionTimeout(timeout, cfg) ==
    IF timeout.none THEN cfg.runtime_timeout - 5 ELSE timeout.v

\* job.py:150-159: the descriptor as filled before serialization
NewJob(t, func, d, extra_env, timeout, cfg) ==
    [NoJob EXCEPT
        !.keys = {"runtime_name", "runtime_memory", "execution_timeout",
                  "function_name", "extra_env", "total_calls",
                  "invoke_pool_threads", "executor_id", "job_id"},
        !.runtime_name = cfg.runtime,
        !.runtime_memory = cfg.runtime_memory,
        !.execution_timeout = ExecutionTimeout(timeout, cfg),
        !.function_name = func.fname,
        !.extra_env = ExtEnv(extra_env),
        !.total_calls = TotalCalls(d),
        !.invoke_pool_threads = 128,
        !.executor_id = ExecutorId(t),
        !.job_id = JobId(t)]

\* _create_job, job.py:133-183: up to the breakpoint before serialization
CreateJob(t, func, d, extra_env, timeout, ppo) ==
    IF IsEmpty(d)
    THEN ReturnEmpty(t, ppo)
    ELSE /\ pc' = [pc EXCEPT ![t] = "pdb_serialize"]
         /\ jd' = [jd EXCEPT ![t] = NewJob(t, func, d, extra_env, timeout, config)]
         /\ data' = [data EXCEPT ![t] = d]
         /\ parts' = [parts EXCEPT ![t] = ppo]
         /\ result' = [result EXCEPT ![t] = Outcome("none", "")]
         /\ UNCHANGED <<ser, modIdx>>

\* the map inputs: plain values, or objects with a chunk size
MapData(objproc, sizes, chunk) ==
    IF objproc THEN create_partitions(sizes, chunk) ELSE PlainArgs(Len(sizes))
MapParts(objproc, sizes, chunk) ==
    IF objproc THEN PartsPerObject(sizes, chunk) ELSE <<>>

CreateMapJob(t, D) ==
    /\ pc[t] = "idle"
    /\ \E f \in D.funcs, e \in D.envs, to \in D.timeouts, m \in D.maps,
          im \in D.includes, em \in D.excludes :
        /\ inp' = [inp EXCEPT ![t] =
                     [kind |-> "map", func |-> f, iterLen |-> Len(m.sizes),
                      include_modules |-> im, exclude_modules |-> em,
                      extra_env |-> e, futures |-> <<>>, map_job |-> <<>>,
                      has_parts |-> FALSE, one_per_object |-> FALSE]]
        /\ puts' = [puts EXCEPT ![t] = {}]
        /\ built' = [built EXCEPT ![t] = NoBuild]
        /\ \/ /\ Len(m.sizes) > 0   \* verify_args or create_partitions fails
              /\ Raise(t)            \* on one of the elements
           \/ CreateJob(t, f, MapData(m.objproc, m.sizes, m.chunk), e, to,
                        MapParts(m.objproc, m.sizes, m.chunk))
    /\ UNCHANGED <<config, otherVars, storage, mod_path, dockerfile>>

\* --------------------------------------------- create_reduce_job (80-114)
\* job.py:88-95: the reduce inputs, one list of futures per reduce call
RECURSIVE Groups(_, _, _)
Groups(ppo, futures, prev) ==
    IF ppo = <<>> THEN <<>>
    ELSE <<PySlice(futures, prev, prev + Head(ppo))>>
         \o Groups(Tail(ppo), futures, prev + Head(ppo))
\* faulty variant of the grouping: the first slice starts one future late
ReduceIterdata_OffByOne(has_parts, ppo, futures, one_per_object) ==
    IF has_parts /\ one_per_object THEN Groups(ppo, futures, 1) ELSE <<futures>>
ReduceIterdata(has_parts, ppo, futures, one_per_object) ==
    IF has_parts /\ one_per_object THEN Groups(ppo, futures, 0) ELSE <<futures>>

\* job.py:97-102: the environment of a reduce job
reduce_job_env == (REDUCE_MARKER :> PyTrue)
ReduceEnv(extra_env) ==
    IF extra_env.none THEN [d |-> reduce_job_env, none |-> FALSE]
    ELSE [d |-> DictUpdate(extra_env.d, reduce_job_env), none |-> FALSE]

\* faulty variant of the wrapper's environment: the caller's dict is updated
\* in place
ReduceEnvs_InPlace(extra_env) ==
    [caller |-> IF extra_env.none THEN extra_env ELSE ReduceEnv(extra_env),
     ext_env |-> ReduceEnv(extra_env)]

\* job.py:98-102: the caller's mapping after the wrapper ran (update acts on
\* a copy) and the mapping handed to _create_job
ReduceEnvs(extra_env) ==
    [caller |-> extra_env, ext_env |-> ReduceEnv(extra_env)]

CreateReduceJob(t, D) ==
    /\ pc[t] = "idle"
    /\ \E f \in D.funcs, e \in D.envs, to \in D.timeouts, r \in D.reduces,
          im \in D.includes, em \in D.excludes :
        /\ inp' = [inp EXCEPT ![t] =
                     [kind |-> "reduce", func |-> f, iterLen |-> Len(r.futures),
                      include_modules |-> im, exclude_modules |-> em,
                      extra_env |-> ReduceEnvs(e).caller, given_env |-> e,
                      futures |-> r.futures, map_job |-> r.ppo,
                      has_parts |-> r.has_parts,
                      one_per_object |-> r.one_per_object]]
        /\ puts' = [puts EXCEPT ![t] = {}]
        /\ built' = [built EXCEPT ![t] = NoBuild]
        /\ \/ Raise(t)      \* verify_args fails
           \/ CreateJob(t, f,
                        ReduceIterdata(r.has_parts, r.ppo, r.futures, r.one_per_object),
                        ReduceEnvs(e).ext_env, to, <<>>)
    /\ UNCHANGED <<config, otherVars, storage, mod_path, dockerfile>>


\* ----------------------------------------- _create_job, job.py:183-237
\* pdb.set_trace() at job.py:183 and job.py:278: the call waits at the
\* debugger prompt until somebody enters a command
AtBreakpoint(t) == pc[t] \in {"pdb_serialize", "pdb_build"}

PdbContinue(t) ==
    /\ AtBreakpoint(t)
    /\ pc' = [pc EXCEPT ![t] = IF pc[t] = "pdb_serialize" THEN "serialize" ELSE "build"]
    /\ UNCHANGED <<inp, parts, data, jd, ser, modIdx, result, puts, built,
                   config, otherVars, storage, mod_path, dockerfile>>

\* the debugger command quit (or the end of its input) raises BdbQuit
PdbQuit(t) ==
    /\ AtBreakpoint(t)
    /\ Raise(t)
    /\ UNCHANGED <<inp, puts, built, config, otherVars, storage, mod_path, dockerfile>>

\* job.py:161-162: config['pywren'].get(key, [])
ConfigModules(cfg, key) == IF key \in DOMAIN cfg THEN cfg[key] ELSE Names({})

\* job.py:164-169
ExcModules(exclude_modules_cfg, exclude_modules) ==
    (IF Truthy(exclude_modules_cfg) THEN exclude_modules_cfg.s ELSE {})
    \cup (IF Truthy(exclude_modules) THEN exclude_modules.s ELSE {})

\* job.py:165 and 170-177, statement by statement
IncModules(include_modules_cfg, include_modules) ==
    LET s1 == IF ~include_modules_cfg.none
              THEN Names(include_modules_cfg.s) ELSE Names({})
        s2 == IF include_modules_cfg.none /\ ~Truthy(include_modules)
              THEN NoneNames ELSE s1
        s3 == IF ~include_modules.none /\ Truthy(include_modules)
              THEN Names(s2.s \cup include_modules.s) ELSE s2
    IN  IF include_modules.none THEN NoneNames ELSE s3

\* job.py:184-194: the serializer gets the filters and gives one blob per call
\* and the module paths
Serialize(t, D) ==
    /\ pc[t] = "serialize"
    /\ \/ \E sz \in D.sizes, mp \in D.modpaths :
            LET strs == [i \in 1..Len(data[t]) |-> sz[1]]
            IN  /\ ser' = [ser EXCEPT ![t] =
                             [data_strs |-> strs,
                              data_size_bytes |-> SumSeq(strs),
                              func_module_size_bytes |-> sz[2],
                              mod_paths |-> mp,
                              inc_modules |->
                                  IncModules(ConfigModules(config, "include_modules"),
                                             inp[t].include_modules),
                              exc_modules |->
                                  ExcModules(ConfigModules(config, "exclude_modules"),
                                             inp[t].exclude_modules)]]
                /\ pc' = [pc EXCEPT ![t] = "size_check"]
                /\ UNCHANGED <<parts, data, jd, modIdx, result>>
       \/ Raise(t)          \* a dependency cannot be resolved
    /\ UNCHANGED <<inp, puts, built, config, otherVars, storage, mod_path, dockerfile>>

\* job.py:196-199
DataLimit(cfg) == IF cfg.has_limit THEN cfg.data_limit ELSE MAX_AGG_DATA_SIZE

\* faulty variant of the size check: the configured data_limit is ignored
SizeExceeded_DefaultOnly(cfg, s) ==
    s.data_size_bytes > MAX_AGG_DATA_SIZE * MiB

\* job.py:201: the condition under which the call raises
SizeExceeded(cfg, s) ==
    DataLimit(cfg) # 0 /\ s.data_size_bytes > DataLimit(cfg) * MiB

CheckSize(t) ==
    /\ pc[t] = "size_check"
    /\ IF SizeExceeded(config, ser[t])
       THEN Raise(t)
       ELSE /\ pc' = [pc EXCEPT ![t] = "put_data"]
            /\ UNCHANGED <<parts, data, jd, ser, modIdx, result>>
    /\ UNCHANGED <<inp, puts, built, config, otherVars, storage, mod_path, dockerfile>>

\* job.py:210-219: the aggregated data goes to storage under data_key
PutData(t) ==
    /\ pc[t] = "put_data"
    /\ LET data_key == create_agg_data_key(JOBS_PREFIX, ExecutorId(t), JobId(t))
       IN  \/ /\ jd' = [jd EXCEPT ![t].data_key = data_key,
                                  ![t].data_ranges = agg_data(ser[t].data_strs),
                                  ![t].keys = @ \cup {"data_key", "data_ranges"}]
              /\ storage' = storage \cup {data_key}
              /\ puts' = [puts EXCEPT ![t] = @ \cup {data_key}]
              /\ pc' = [pc EXCEPT ![t] = "deliver"]
              /\ UNCHANGED <<parts, data, ser, modIdx, result>>
           \/ /\ Raise(t)   \* the storage is unavailable
              /\ UNCHANGED <<storage, puts>>
    /\ UNCHANGED <<inp, built, config, otherVars, mod_path, dockerfile>>

\* job.py:226 "if False:": whether the function is uploaded under func_key
UploadFunction(cfg) == FALSE

\* job.py:221-229: func_key is set and the delivery is chosen
Deliver(t) ==
    /\ pc[t] = "deliver"
    /\ LET func_key == create_func_key(JOBS_PREFIX, ExecutorId(t), JobId(t))
           withKey == [jd EXCEPT ![t].func_key = func_key,
                                 ![t].keys = @ \cup {"func_key"}]
       IN  IF UploadFunction(config)
           THEN \/ /\ jd' = withKey
                   /\ storage' = storage \cup {func_key}
                   /\ puts' = [puts EXCEPT ![t] = @ \cup {func_key}]
                   /\ pc' = [pc EXCEPT ![t] = "return"]
                   /\ UNCHANGED <<parts, data, ser, modIdx, result>>
                \/ /\ Raise(t)
                   /\ UNCHANGED <<storage, puts>>
           ELSE /\ jd' = withKey
                /\ pc' = [pc EXCEPT ![t] = "inj_exists"]
                /\ UNCHANGED <<parts, data, ser, modIdx, result, storage, puts>>
    /\ UNCHANGED <<inp, built, config, otherVars, mod_path, dockerfile>>


\* ---------------------- _inject_in_runtime_docker_image, job.py:239-289
\* tempfile.TemporaryDirectory(MOD_PATH) at job.py:259 makes a fresh
\* directory whose name ends in 'ext_mod_path' under the system's temporary
\* directory and removes it again; nothing is written there.  All writes go
\* to the relative paths 'ext_mod_path' and 'custom.dockerfile'.
\* the entries of the directory ext_mod_path
ModuleEntry(module) == [file |-> module.name, ext |-> ""]
\* job.py:250-252 and 268: '<md5 of the source>.py'
SourceEntry(func) == [file |-> md5(func.src), ext |-> "py"]
\* faulty variant of the image name: tagged with the function's name
ExtDockerImage_ByName(base_docker_image, func) == ImageName(base_docker_image, func.fname)

\* job.py:254-255
ExtDockerImage(base_docker_image, func) == ImageName(base_docker_image, md5(func.src))

\* job.py:247: os.path.exists(MOD_PATH)
InjExists(t) ==
    /\ pc[t] = "inj_exists"
    /\ IF mod_path.kind # "absent"
       THEN /\ pc' = [pc EXCEPT ![t] = "inj_rmtree"]
            /\ UNCHANGED modIdx
       ELSE /\ pc' = [pc EXCEPT ![t] = "inj_copy"]
            /\ modIdx' = [modIdx EXCEPT ![t] = 1]
    /\ UNCHANGED <<inp, parts, data, jd, ser, result, puts, built,
                   config, otherVars, storage, mod_path, dockerfile>>

\* job.py:248: shutil.rmtree(MOD_PATH) removes a directory and fails on
\* anything else
InjRmtree(t) ==
    /\ pc[t] = "inj_rmtree"
    /\ IF mod_path.kind = "dir"
       THEN /\ mod_path' = NoPath
            /\ pc' = [pc EXCEPT ![t] = "inj_copy"]
            /\ modIdx' = [modIdx EXCEPT ![t] = 1]
            /\ UNCHANGED <<parts, data, jd, ser, result>>
       ELSE /\ Raise(t)
            /\ UNCHANGED mod_path
    /\ UNCHANGED <<inp, puts, built, config, otherVars, storage, dockerfile>>

\* job.py:262: shutil.copytree(module, MOD_PATH/<basename>)
CopyTree(path, module) ==
    CASE path.kind = "absent" -> [ok |-> TRUE,
                                  path |-> [kind |-> "dir", entries |-> {ModuleEntry(module)}]]
      [] path.kind = "dir" /\ ModuleEntry(module) \notin path.entries ->
            [ok |-> TRUE,
             path |-> [path EXCEPT !.entries = @ \cup {ModuleEntry(module)}]]
      [] OTHER -> [ok |-> FALSE, path |-> path]

\* job.py:264: shutil.copy2(module, MOD_PATH)
Copy2(path, module) ==
    IF path.kind = "dir"
    THEN [ok |-> TRUE, path |-> [path EXCEPT !.entries = @ \cup {ModuleEntry(module)}]]
    ELSE [ok |-> TRUE, path |-> [kind |-> "file", entries |-> {}]]

\* job.py:260-264: one round of the loop over mod_paths
InjCopy(t) ==
    /\ pc[t] = "inj_copy"
    /\ modIdx[t] <= Len(ser[t].mod_paths)
    /\ LET module == ser[t].mod_paths[modIdx[t]]
           r == IF module.isdir THEN CopyTree(mod_path, module)
                ELSE Copy2(mod_path, module)
       IN  IF r.ok
           THEN /\ mod_path' = r.path
                /\ modIdx' = [modIdx EXCEPT ![t] = @ + 1]
                /\ UNCHANGED <<pc, parts, data, jd, ser, result>>
           ELSE /\ Raise(t)
                /\ UNCHANGED mod_path
    /\ UNCHANGED <<inp, puts, built, config, otherVars, storage, dockerfile>>

\* job.py:266-269: open('ext_mod_path/<hash>.py', 'w') needs the directory
InjWriteSource(t) ==
    /\ pc[t] = "inj_copy"
    /\ modIdx[t] > Len(ser[t].mod_paths)
    /\ IF mod_path.kind = "dir"
       THEN /\ mod_path' = [mod_path EXCEPT !.entries = @ \cup {SourceEntry(inp[t].func)}]
            /\ pc' = [pc EXCEPT ![t] = "inj_write_dockerfile"]
            /\ UNCHANGED <<parts, data, jd, ser, modIdx, result>>
       ELSE /\ Raise(t)
            /\ UNCHANGED mod_path
    /\ UNCHANGED <<inp, puts, built, config, otherVars, storage, dockerfile>>

\* job.py:271-278: custom.dockerfile is "FROM <base image>" and two fixed
\* lines; the file is identified by its base image
InjWriteDockerfile(t) ==
    /\ pc[t] = "inj_write_dockerfile"
    /\ dockerfile' = jd[t].runtime_name
    /\ pc' = [pc EXCEPT ![t] = "pdb_build"]
    /\ UNCHANGED <<inp, parts, data, jd, ser, modIdx, result, puts, built,
                   config, otherVars, storage, mod_path>>

\* cli.runtime.build_and_create_runtime: the image is built from the
\* dockerfile and the entry ext_mod_path as they are at that moment
BuildContext(image, df, path) ==
    [done |-> TRUE, image |-> image, from |-> df, kind |-> path.kind,
     entries |-> path.entries]

\* faulty variant of the build step: a failed build removes the uploaded data
Build_RollsBack(t) ==
    /\ pc[t] = "build"
    /\ LET image == ExtDockerImage(jd[t].runtime_name, inp[t].func)
       IN  \/ /\ mod_path.kind # "absent"
              /\ built' = [built EXCEPT ![t] = BuildContext(image, dockerfile, mod_path)]
              /\ jd' = [jd EXCEPT ![t].runtime_name = image]
              /\ pc' = [pc EXCEPT ![t] = "return"]
              /\ UNCHANGED <<parts, data, ser, modIdx, result, storage>>
           \/ /\ Raise(t)
              /\ storage' = storage \ {jd[t].data_key}
              /\ UNCHANGED built
    /\ UNCHANGED <<inp, puts, config, otherVars, mod_path, dockerfile>>

\* faulty variant of the build step: a failed build is ignored
Build_IgnoreFailure(t) ==
    /\ pc[t] = "build"
    /\ LET image == ExtDockerImage(jd[t].runtime_name, inp[t].func)
       IN  \/ /\ mod_path.kind # "absent"
              /\ built' = [built EXCEPT ![t] = BuildContext(image, dockerfile, mod_path)]
              /\ jd' = [jd EXCEPT ![t].runtime_name = image]
              /\ pc' = [pc EXCEPT ![t] = "return"]
              /\ UNCHANGED <<parts, data, ser, modIdx, result>>
           \/ /\ jd' = [jd EXCEPT ![t].runtime_name = image]
              /\ pc' = [pc EXCEPT ![t] = "return"]
              /\ UNCHANGED <<parts, data, ser, modIdx, result, built>>
    /\ UNCHANGED <<inp, puts, config, otherVars, storage, mod_path, dockerfile>>

\* job.py:280-284
Build(t) ==
    /\ pc[t] = "build"
    /\ LET image == ExtDockerImage(jd[t].runtime_name, inp[t].func)
       IN  \/ /\ mod_path.kind # "absent"
              /\ built' = [built EXCEPT ![t] = BuildContext(image, dockerfile, mod_path)]
              /\ jd' = [jd EXCEPT ![t].runtime_name = image]
              /\ pc' = [pc EXCEPT ![t] = "return"]
              /\ UNCHANGED <<parts, data, ser, modIdx, result>>
           \/ /\ Raise(t)   \* the build fails
              /\ UNCHANGED built
    /\ UNCHANGED <<inp, puts, config, otherVars, storage, mod_path, dockerfile>>

\* job.py:231-237 and, for a map job, job.py:74-77
Return(t) ==
    /\ pc[t] = "return"
    /\ jd' = [jd EXCEPT
                ![t].keys = @ \cup {"metadata"}
                              \cup (IF parts[t] # <<>> THEN {"parts_per_object"} ELSE {}),
                ![t].parts_per_object = parts[t]]
    /\ result' = [result EXCEPT ![t] = Outcome("descriptor", "")]
    /\ pc' = [pc EXCEPT ![t] = "idle"]
    /\ UNCHANGED <<inp, parts, data, ser, modIdx, puts, built,
                   config, otherVars, storage, mod_path, dockerfile>>

\* ------------------------------------------------------ specifications
\* the inputs of the sequential specification
MapInputs ==
    { [sizes |-> [i \in 1..n |-> 1], chunk |-> 0, objproc |-> FALSE] : n \in 0..MaxIter }
    \cup { [sizes |-> [i \in 1..n |-> 2], chunk |-> 0, objproc |-> TRUE] : n \in 1..MaxIter }
    \cup { [sizes |-> s, chunk |-> 1, objproc |-> TRUE] : s \in IterDatas \ {<<>>} }
PartCounts == { <<1, MaxFutures - 1>>, <<MaxFutures - 1, 1>>, <<1, 1>> }
ReduceInputs ==
    { [ppo |-> h[2], futures |-> [i \in 1..MaxFutures |-> i], has_parts |-> h[1],
       one_per_object |-> o] :
        h \in {<<FALSE, <<>>>>} \cup { <<TRUE, p>> : p \in PartCounts },
        o \in BOOLEAN }
NoTimeout == [v |-> 0, none |-> TRUE]

Domain ==
    [sizes |-> SerSizes, funcs |-> Funcs, envs |-> ExtraEnvs,
     timeouts |-> {NoTimeout}, maps |-> MapInputs,
     includes |-> {Names({})}, excludes |-> {Names({})},
     reduces |-> ReduceInputs, modpaths |-> ModPaths]

\* the inputs of the concurrent specification: each thread constructs jobs
\* of its own function
FuncOf(t) == IF t = 1 THEN [src |-> "src_f", fname |-> "f"]
             ELSE [src |-> "src_g", fname |-> "g"]
ConcDomain(t) ==
    [sizes |-> { <<SmallBlob, SmallBlob>> },
     funcs |-> {FuncOf(t)}, envs |-> {NoneEnv}, timeouts |-> {NoTimeout},
     maps |-> { [sizes |-> <<1>>, chunk |-> 0, objproc |-> FALSE] },
     includes |-> {Names({})}, excludes |-> {Names({})},
     reduces |-> { [ppo |-> <<>>, futures |-> <<1>>, has_parts |-> FALSE,
                    one_per_object |-> FALSE] },
     modpaths |-> { <<DirModule>>, <<DirModule, FileModule>> }]

Step(t, D) ==
    \/ CreateMapJob(t, D)
    \/ CreateReduceJob(t, D)
    \/ PdbContinue(t)
    \/ PdbQuit(t)
    \/ Serialize(t, D)
    \/ CheckSize(t)
    \/ PutData(t)
    \/ Deliver(t)
    \/ InjExists(t)
    \/ InjRmtree(t)
    \/ InjCopy(t)
    \/ InjWriteSource(t)
    \/ InjWriteDockerfile(t)
    \/ Build(t)
    \/ Return(t)

\* one caller, one call after another
Next == \E t \in SeqThreads : Step(t, Domain)
Spec == Init /\ [][Next]_vars


\* several callers at once, in one working directory
ConcInit == Init /\ config.env = "docker" /\ ~config.has_limit
ConcNext == \E t \in Threads : Step(t, ConcDomain(t))
ConcSpec == ConcInit /\ [][ConcNext]_vars


\* -------------------------------------------------------------- claims
Returned(t) == result[t].kind = "descriptor"
Serialized(t) == ser[t] # NoSer
Uploaded(t) == puts[t] # {} \/ built[t].done
CombinedSize(s) == s.data_size_bytes + s.func_module_size_bytes

\* C1 as stated: a call whose combined serialized size (data + function +
\* modules) is over a configured ceiling data_limit*1024^2 makes no upload
\* and no delivery.
C1_CombinedSizeOverLimitUploadsNothing ==
    \A t \in Threads :
        (Serialized(t) /\ DataLimit(config) > 0
            /\ CombinedSize(ser[t]) > DataLimit(config) * MiB)
            => ~Uploaded(t)

\* C1 amended: a call whose serialized data alone (the per-call blobs,
\* without function and modules) is over data_limit*1024^2, for a non-zero
\* data_limit, never gets past the size check and makes no upload and no
\* delivery.
C1_DataOverLimitUploadsNothing ==
    \A t \in Threads :
        (Serialized(t) /\ DataLimit(config) # 0
            /\ ser[t].data_size_bytes > DataLimit(config) * MiB)
            => pc[t] = "size_check" /\ ~Uploaded(t)

C1_Witness ==
    \E t \in Threads :
        /\ result[t] = Outcome("raised", "size_check")
        /\ ~Uploaded(t)

\* C2 as stated: a map call on a non-empty iterable that returns a
\* descriptor has len(data_ranges) = total_calls = len(iterable).
C2_RangesEqualInputLength ==
    \A t \in Threads :
        (Returned(t) /\ inp[t].kind = "map" /\ inp[t].iterLen > 0)
            => /\ Len(jd[t].data_ranges) = jd[t].total_calls
               /\ jd[t].total_calls = inp[t].iterLen

\* C2 amended: every returned descriptor has len(data_ranges) = total_calls
\* = the number of call arguments handed to _create_job; that is the length
\* of the iterable for a map over plain values and sum(parts_per_object)
\* for a map over partitioned objects.
C2_RangesEqualCallCount ==
    \A t \in Threads :
        Returned(t)
            => /\ Len(jd[t].data_ranges) = jd[t].total_calls
               /\ jd[t].total_calls = Len(data[t])
               /\ (inp[t].kind = "map" /\ parts[t] = <<>>)
                     => jd[t].total_calls = inp[t].iterLen
               /\ (inp[t].kind = "map" /\ parts[t] # <<>>)
                     => jd[t].total_calls = SumSeq(parts[t])

C2_Witness ==
    \E t \in Threads :
        /\ Returned(t)
        /\ inp[t].kind = "map"
        /\ jd[t].total_calls > inp[t].iterLen
        /\ Len(jd[t].data_ranges) = SumSeq(parts[t])

\* C3: construction is all or nothing: a call that raised returned no
\* descriptor, and a returned descriptor has passed serialization, the size
\* check, the data upload and the delivery of the computation unit.
C3_AllOrNothing ==
    \A t \in Threads :
        /\ result[t].kind \in {"raised", "empty"} => jd[t] = NoJob
        /\ Returned(t)
             => /\ Serialized(t)
                /\ ~SizeExceeded(config, ser[t])
                /\ jd[t].data_key \in puts[t]
                /\ (built[t].done \/ jd[t].func_key \in puts[t])

C3_Witness ==
    \E t \in Threads :
        /\ Returned(t)
        /\ jd[t].data_key \in puts[t]
        /\ built[t].done


\* C4 as stated: in a returned descriptor a non-empty func_key names an
\* object the call put into storage, and so does a non-empty data_key.
C4_KeysNameUploadedObjects ==
    \A t \in Threads :
        Returned(t)
            => /\ jd[t].func_key # <<>> => jd[t].func_key \in puts[t]
               /\ jd[t].data_key # <<>> => jd[t].data_key \in puts[t]

\* C5 as stated: the computation unit is staged into an extension image,
\* and runtime_name rewritten, only when the configured execution
\* environment is container-based; otherwise it is uploaded under func_key
\* and runtime_name stays the configured runtime.
C5_DeliverySelectedByConfiguration ==
    \A t \in Threads :
        Returned(t)
            => IF config.env = "docker"
               THEN /\ built[t].done
                    /\ jd[t].runtime_name = ExtDockerImage(config.runtime, inp[t].func)
               ELSE /\ ~built[t].done
                    /\ jd[t].func_key \in puts[t]
                    /\ jd[t].runtime_name = config.runtime

\* C6 as stated: every call that has started eventually completes, given
\* that the serializer, the storage and the runtime build complete.
C6_EveryCallCompletes == \A t \in SeqThreads : (pc[t] # "idle") ~> (pc[t] = "idle")

\* what a call stages when it runs alone: its own modules and its own source
OwnStaging(t) ==
    [kind |-> "dir",
     entries |-> { ModuleEntry(ser[t].mod_paths[i]) : i \in 1..Len(ser[t].mod_paths) }
                 \cup { SourceEntry(inp[t].func) }]

\* C7 as stated: under every interleaving a call builds its image from the
\* dockerfile and the staged files it would have when run alone.
C7_ConcurrentCallsStageTheirOwnFiles ==
    \A t \in Threads :
        (built[t].done /\ Serialized(t))
            => built[t] = BuildContext(ExtDockerImage(config.runtime, inp[t].func),
                                       config.runtime, OwnStaging(t))

RECURSIVE Concat(_)
Concat(ss) == IF ss = <<>> THEN <<>> ELSE Head(ss) \o Concat(Tail(ss))

\* C8: with parts_per_object recorded, sum(parts_per_object) = len(map_futures)
\* and reducer_one_per_object set, the reduce inputs are len(parts_per_object)
\* groups, group k has parts_per_object[k] futures, and the groups in order
\* concatenate to map_futures.
C8_ReduceGroupsFollowPartsPerObject ==
    \A t \in Threads :
        (/\ inp[t].kind = "reduce"
         /\ pc[t] # "idle" \/ Returned(t)
         /\ inp[t].has_parts /\ inp[t].one_per_object
         /\ SumSeq(inp[t].map_job) = Len(inp[t].futures))
            => /\ Len(data[t]) = Len(inp[t].map_job)
               /\ \A k \in 1..Len(data[t]) : Len(data[t][k]) = inp[t].map_job[k]
               /\ Concat(data[t]) = inp[t].futures
               /\ jd[t].total_calls = Len(inp[t].map_job)

C8_Witness ==
    \E t \in Threads :
        /\ inp[t].kind = "reduce" /\ Returned(t)
        /\ inp[t].has_parts /\ inp[t].one_per_object
        /\ SumSeq(inp[t].map_job) = Len(inp[t].futures)
        /\ Len(data[t]) = 2
        /\ Len(data[t][1]) # Len(data[t][2])

\* C9: a map call on an empty iterable returns the empty result and makes
\* no upload and no delivery.
C9_EmptyInputReturnsEmptyWithoutUpload ==
    \A t \in Threads :
        (inp[t].kind = "map" /\ inp[t].iterLen = 0)
            => /\ pc[t] = "idle"
               /\ result[t].kind = "empty"
               /\ jd[t] = NoJob
               /\ ~Uploaded(t)

C9_Witness ==
    \E t \in Threads :
        /\ inp[t].kind = "map" /\ inp[t].iterLen = 0
        /\ result[t].kind = "empty"
        /\ storage # {}

ProgramStep(t) ==
    \/ Serialize(t, ConcDomain(t))
    \/ CheckSize(t)
    \/ PutData(t)
    \/ Deliver(t)
    \/ InjExists(t)
    \/ InjRmtree(t)
    \/ InjCopy(t)
    \/ InjWriteSource(t)
    \/ InjWriteDockerfile(t)
    \/ Build(t)
    \/ Return(t)

LiveNext == \E t \in SeqThreads : Step(t, ConcDomain(t))
LiveSpec ==
    /\ Init
    /\ [][LiveNext]_vars
    /\ \A t \in SeqThreads : WF_vars(ProgramStep(t))


\* ------------------------------------- specification for the timeouts
RuntimeTimeouts == {3, 5, 600}
TimeoutConfigs ==
    { [runtime |-> <<"rt">>, env |-> "docker", has_limit |-> FALSE, data_limit |-> 0,
       runtime_timeout |-> rt, runtime_memory |-> 256] : rt \in RuntimeTimeouts }
Timeouts == { NoTimeout, [v |-> 0, none |-> FALSE], [v |-> 30, none |-> FALSE] }
TimeoutDomain == [ConcDomain(1) EXCEPT !.timeouts = Timeouts]

TimeoutNext == \E t \in SeqThreads : Step(t, TimeoutDomain)
TimeoutSpec == InitWith(TimeoutConfigs) /\ [][TimeoutNext]_vars

\* C11 as stated: every returned descriptor has execution_timeout > 0, for
\* every configured runtime_timeout and every execution_timeout given by the
\* caller.
C11_ExecutionTimeoutPositive ==
    \A t \in Threads : Returned(t) => jd[t].execution_timeout > 0

\* ------------------------------- specification for the content-hash tag
\* two functions of different names and the same source, and a third one
SameSourceFunc == [src |-> "src_f", fname |-> "f2"]
HashDomain(t) ==
    [ConcDomain(t) EXCEPT !.funcs = Funcs \cup {SameSourceFunc},
                          !.modpaths = { <<DirModule>> }]
HashNext == \E t \in Threads : Step(t, HashDomain(t))
HashSpec == ConcInit /\ [][HashNext]_vars

\* C19: two calls with the same function source and the same configured
\* runtime get the same tag and the same runtime_name <runtime>:<md5 of the
\* source>, whatever the function's name, job and caller.
C19_SameSourceSameImage ==
    \A t1, t2 \in Threads :
        (Returned(t1) /\ Returned(t2) /\ inp[t1].func.src = inp[t2].func.src)
            => /\ jd[t1].runtime_name = jd[t2].runtime_name
               /\ built[t1].image = built[t2].image
               /\ jd[t1].runtime_name = ImageName(config.runtime, md5(inp[t1].func.src))
               /\ built[t1].image = jd[t1].runtime_name

C19_Witness ==
    \E t1, t2 \in Threads :
        /\ t1 # t2
        /\ Returned(t1) /\ Returned(t2)
        /\ inp[t1].func.src = inp[t2].func.src
        /\ inp[t1].func.fname # inp[t2].func.fname
        /\ jd[t1].job_id # jd[t2].job_id

\* C20: the data is uploaded after the size check and before the delivery
\* of the function; a call that fails after the upload raises, returns no
\* descriptor and leaves the uploaded data in storage.
AfterUpload == {"deliver", "inj_exists", "inj_rmtree", "inj_copy",
                "inj_write_dockerfile", "pdb_build", "build", "return"}
C20_UploadBetweenCheckAndDelivery ==
    \A t \in Threads :
        LET data_key == create_agg_data_key(JOBS_PREFIX, ExecutorId(t), JobId(t))
        IN  /\ (pc[t] # "idle" /\ puts[t] # {})
                 => pc[t] \in AfterUpload /\ ~SizeExceeded(config, ser[t])
            /\ (pc[t] \in AfterUpload \/ built[t].done) => data_key \in puts[t]
            /\ (result[t].kind = "raised" /\ result[t].at \in AfterUpload)
                 => /\ jd[t] = NoJob
                    /\ data_key \in puts[t]
                    /\ data_key \in storage

C20_Witness ==
    \E t \in Threads :
        /\ result[t] = Outcome("raised", "build")
        /\ jd[t] = NoJob
        /\ create_agg_data_key(JOBS_PREFIX, ExecutorId(t), JobId(t)) \in storage


\* ------------------------------------------------ localhost/localhost.py
\* bounds on the number of launched run_job processes and of setup calls
MaxLaunches == 2
MaxSetups == 2

StorageBucket == "bucket"
LhExecutorId == "E0"
LhRuntimes == { "None", "rt" }

\* localhost.py:64-67
jobr_filename(job_id) ==
    <<"STORAGE_DIR", StorageBucket, JOBS_PREFIX, LhExecutorId, job_id, "job.json">>

\* a launched execution command
Process(kind, job_id, arg, state) ==
    [id |-> Cardinality(procs) + 1, kind |-> kind, job |-> job_id, arg |-> arg,
     handler_staged |-> lh_fs.handler,
     file |-> IF job_id \in JobIds THEN job_file[job_id] ELSE "none",
     state |-> state]

LhRaise(at) ==
    /\ lh_pc' = "idle"
    /\ lh_job' = ""
    /\ lh_result' = Outcome("raised", at)

LhReturn(at) ==
    /\ lh_pc' = "idle"
    /\ lh_job' = ""
    /\ lh_result' = Outcome("returned", at)

\* localhost.py:42-51
LocalhostHandler(runtime) ==
    /\ lh_env = "none"
    /\ lh_env' = IF runtime = "None" THEN "default" ELSE "docker"
    /\ UNCHANGED <<lh_pc, lh_job, lh_fs, job_file, procs, setups, lh_result>>
    /\ UNCHANGED <<jobVars, storage, cmpVars, clVars>>

\* localhost.py:107-115 and 127-129: the docker variant runs "id -u $USER"
\* with check=True
GetExecutionCmdMayFail == lh_env = "docker"

\* localhost.py:57-67: the command is computed, then os.makedirs creates the
\* job directory and the directories above it
RunJob(job_id) ==
    /\ lh_env # "none"
    /\ lh_pc = "idle"
    /\ Cardinality({ p \in procs : p.kind = "run" }) < MaxLaunches
    /\ \/ /\ lh_pc' = "rj_open"
          /\ lh_job' = job_id
          /\ lh_result' = Outcome("none", "")
          /\ lh_fs' = [lh_fs EXCEPT !.dir = TRUE]
       \/ /\ GetExecutionCmdMayFail
          /\ LhRaise("get_execution_cmd")
          /\ UNCHANGED lh_fs
    /\ UNCHANGED <<lh_env, job_file, procs, setups>>
    /\ UNCHANGED <<jobVars, storage, cmpVars, clVars>>

\* localhost.py:69: open(jobr_filename, 'w') creates or truncates the file
RjOpen ==
    /\ lh_pc = "rj_open"
    /\ job_file' = [job_file EXCEPT ![lh_job] = "open"]
    /\ lh_pc' = "rj_dump"
    /\ UNCHANGED <<lh_env, lh_job, lh_fs, procs, setups, lh_result>>
    /\ UNCHANGED <<jobVars, storage, cmpVars, clVars>>

\* localhost.py:69-70: json.dump, then the with block closes the file; a
\* failing dump closes a partly written file and raises
RjDump ==
    /\ lh_pc = "rj_dump"
    /\ \/ /\ job_file' = [job_file EXCEPT ![lh_job] = "closed"]
          /\ lh_pc' = "rj_launch"
          /\ UNCHANGED <<lh_job, lh_result>>
       \/ /\ job_file' = [job_file EXCEPT ![lh_job] = "partial"]
          /\ LhRaise("json.dump")
    /\ UNCHANGED <<lh_env, lh_fs, procs, setups>>
    /\ UNCHANGED <<jobVars, storage, cmpVars, clVars>>

\* faulty variant of the launch: waits for the process, as subprocess.run does
RjLaunch_Waits ==
    /\ lh_pc = "rj_launch"
    /\ \/ /\ procs' = procs \cup { Process("run", lh_job, jobr_filename(lh_job), "done") }
          /\ LhReturn("run_job")
       \/ /\ LhRaise("Popen")
          /\ UNCHANGED procs
    /\ UNCHANGED <<lh_env, lh_fs, job_file, setups>>
    /\ UNCHANGED <<jobVars, storage, cmpVars, clVars>>

\* localhost.py:72-74: subprocess.Popen starts the command and returns; the
\* function ends there
RjLaunch ==
    /\ lh_pc = "rj_launch"
    /\ \/ /\ procs' = procs \cup { Process("run", lh_job, jobr_filename(lh_job), "running") }
          /\ LhReturn("run_job")
       \/ /\ LhRaise("Popen")
          /\ UNCHANGED procs
    /\ UNCHANGED <<lh_env, lh_fs, job_file, setups>>
    /\ UNCHANGED <<jobVars, storage, cmpVars, clVars>>

\* the launched command ends on its own
ProcessExit(p) ==
    /\ p \in procs
    /\ p.state = "running"
    /\ procs' = (procs \ {p}) \cup { [p EXCEPT !.state = "done"] }
    /\ UNCHANGED <<lh_env, lh_pc, lh_job, lh_fs, job_file, setups, lh_result>>
    /\ UNCHANGED <<jobVars, storage, cmpVars, clVars>>

\* localhost.py:122-125
DefaultEnv_setup(fs) == [fs EXCEPT !.dir = TRUE, !.handler = TRUE]

\* localhost.py:101-105: shutil.copytree raises when its destination exists
DockerEnv_setup_fails(fs) == fs.lithops
DockerEnv_setup(fs) ==
    IF DockerEnv_setup_fails(fs)
    THEN [fs EXCEPT !.dir = TRUE]
    ELSE [fs EXCEPT !.dir = TRUE, !.lithops = TRUE, !.handler = TRUE]

\* localhost.py:80
CreateRuntime ==
    /\ lh_env # "none"
    /\ lh_pc = "idle"
    /\ setups < MaxSetups
    /\ setups' = setups + 1
    /\ IF lh_env = "default"
       THEN /\ lh_fs' = DefaultEnv_setup(lh_fs)
            /\ lh_pc' = "cr_modules"
            /\ lh_result' = Outcome("none", "")
            /\ UNCHANGED lh_job
       ELSE /\ lh_fs' = DockerEnv_setup(lh_fs)
            /\ IF DockerEnv_setup_fails(lh_fs)
               THEN LhRaise("setup")
               ELSE /\ lh_pc' = "cr_modules"
                    /\ lh_result' = Outcome("none", "")
                    /\ UNCHANGED lh_job
    /\ UNCHANGED <<lh_env, job_file, procs>>
    /\ UNCHANGED <<jobVars, storage, cmpVars, clVars>>

\* localhost.py:81-86: subprocess.run waits for the command; check=True and
\* json.loads raise on a failing command or on output that is not JSON
CrModules ==
    /\ lh_pc = "cr_modules"
    /\ \/ /\ procs' = procs \cup { Process("modules", "", <<>>, "done") }
          /\ \/ LhReturn("create_runtime")
             \/ LhRaise("modules")
       \/ /\ GetExecutionCmdMayFail
          /\ LhRaise("get_execution_cmd")
          /\ UNCHANGED procs
    /\ UNCHANGED <<lh_env, lh_fs, job_file, setups>>
    /\ UNCHANGED <<jobVars, storage, cmpVars, clVars>>

LhNext ==
    \/ \E runtime \in LhRuntimes : LocalhostHandler(runtime)
    \/ \E job_id \in JobIds : RunJob(job_id)
    \/ RjOpen
    \/ RjDump
    \/ RjLaunch
    \/ \E p \in procs : ProcessExit(p)
    \/ CreateRuntime
    \/ CrModules

LhSpec == Init /\ [][LhNext]_vars

\* C12 as stated: over any sequence of create_runtime and run_job calls on
\* one handler, setup() is executed at most once.
C12_SetupAtMostOnce == setups <= 1

\* C13 as stated: the handler file is staged before any execution command of
\* the environment is launched, by run_job or by create_runtime.
C13_SetupBeforeFirstLaunch == \A p \in procs : p.handler_staged

\* C14 as stated: for both environments a setup() on already staged storage
\* succeeds and leaves the staged files as they were.
C14_SetupIdempotent ==
    [][ (setups' = setups + 1 /\ lh_fs.handler)
            => (lh_result'.kind # "raised" /\ lh_fs' = lh_fs) ]_vars

\* C15: run_job has written and closed job.json at its path before it
\* launches the command on that path, and it returns at the launch, with the
\* process still running.
C15_WriteThenLaunchNoWait ==
    [][ \A p \in procs' :
            (p.kind = "run" /\ p.id \notin { q.id : q \in procs })
                => /\ job_file[p.job] = "closed"
                   /\ p.file = "closed"
                   /\ p.arg = jobr_filename(p.job)
                   /\ p.state = "running"
                   /\ lh_pc = "rj_launch" /\ lh_pc' = "idle"
                   /\ lh_result' = Outcome("returned", "run_job") ]_vars

C15_Witness ==
    \E p \in procs :
        /\ p.kind = "run" /\ p.state = "running"
        /\ job_file[p.job] = "closed"
        /\ lh_pc = "idle"
        /\ lh_result = Outcome("returned", "run_job")


\* --------------------------------------------------- compute/compute.py
\* backend names given in the configuration; the modules of KnownBackends
\* exist under pywren_ibm_cloud.compute.backends
KnownBackends == { "ibm_cf", "knative" }
BackendNames == KnownBackends \cup { "nosuch" }

\* what an operation of a backend may return
BackendValues == { "None", "r1", "r2" }

RuntimeNames == { "rt" }
Memories == { "m256" }
RtTimeouts == { "t600" }
DockerFiles == { "Dockerfile" }
Payloads == { "payload" }

\* faulty variant of the constructor: the exception is logged and dropped
Compute_init_Swallows(backend) ==
    /\ cmp.state = "none"
    /\ \/ /\ backend \in KnownBackends
          /\ cmp' = [state |-> "ready", backend |-> backend, handler |-> backend]
          /\ cmp_result' = CallResult("returned", "__init__", <<backend>>, "None", "None")
       \/ /\ cmp' = [state |-> "ready", backend |-> backend, handler |-> "None"]
          /\ cmp_result' = CallResult("returned", "__init__", <<backend>>, "None", "None")
    /\ UNCHANGED cmp_call
    /\ UNCHANGED <<jobVars, storage, lhVars, clVars>>

\* compute.py:30-43: import_module fails for a name without a module, the
\* backend's constructor may fail; both are logged and raised again, and the
\* caller gets no object
Compute_init(backend) ==
    /\ cmp.state = "none"
    /\ \/ /\ backend \in KnownBackends
          /\ cmp' = [state |-> "ready", backend |-> backend, handler |-> backend]
          /\ cmp_result' = CallResult("returned", "__init__", <<backend>>, "None", "None")
       \/ /\ cmp' = NoDispatcher
          /\ cmp_result' = CallResult("raised", "__init__", <<backend>>, "None", "None")
    /\ UNCHANGED cmp_call
    /\ UNCHANGED <<jobVars, storage, lhVars, clVars>>

\* a method of Compute calling the operation op of the held backend with
\* args and kwargs; returns is FALSE for a method without return statement
Forward(op, caller_args, args, kwargs, returns) ==
    /\ cmp.state = "ready"
    /\ cmp_call' = [handler |-> cmp.handler, op |-> op, args |-> args, kwargs |-> kwargs]
    /\ \/ \E v \in BackendValues :
             cmp_result' = CallResult("returned", op, caller_args,
                                      IF returns THEN v ELSE "None", v)
       \/ cmp_result' = CallResult("raised", op, caller_args, "None", "None")
    /\ UNCHANGED cmp
    /\ UNCHANGED <<jobVars, storage, lhVars, clVars>>

\* compute.py:45-49
Compute_invoke(runtime_name, memory, payload) ==
    Forward("invoke", <<runtime_name, memory, payload>>,
            <<runtime_name, memory, payload>>, <<>>, TRUE)

\* compute.py:51-56
Compute_build_and_create_runtime(runtime_name, file, memory, timeout) ==
    Forward("build_and_create_runtime", <<runtime_name, file, memory, timeout>>,
            <<runtime_name, file, memory, timeout>>, <<>>, TRUE)

\* compute.py:58-63: no return statement
Compute_build_runtime(runtime_name, file) ==
    Forward("build_runtime", <<runtime_name, file>>, <<runtime_name, file>>, <<>>, FALSE)

\* compute.py:65-70
Compute_create_runtime(runtime_name, memory, timeout) ==
    Forward("create_runtime", <<runtime_name, memory, timeout>>,
            <<runtime_name, memory>>, << <<"timeout", timeout>> >>, TRUE)

\* compute.py:72-76
Compute_delete_runtime(runtime_name, memory) ==
    Forward("delete_runtime", <<runtime_name, memory>>, <<runtime_name, memory>>, <<>>, FALSE)

\* compute.py:78-82
Compute_delete_all_runtimes ==
    Forward("delete_all_runtimes", <<>>, <<>>, <<>>, FALSE)

\* compute.py:84-88: runtime_name defaults to 'all'
Compute_list_runtimes(runtime_name) ==
    Forward("list_runtimes", <<runtime_name>>, <<runtime_name>>, <<>>, TRUE)

\* compute.py:90-96
Compute_get_runtime_key(runtime_name, memory) ==
    Forward("get_runtime_key", <<runtime_name, memory>>, <<runtime_name, memory>>, <<>>, TRUE)

\* compute.py:98-100: the end of the dispatcher's lifetime
Compute_del ==
    /\ cmp.state = "ready"
    /\ cmp' = NoDispatcher
    /\ cmp_call' = [handler |-> cmp.handler, op |-> "__del__", args |-> <<>>, kwargs |-> <<>>]
    /\ cmp_result' = CallResult("returned", "__del__", <<>>, "None", "None")
    /\ UNCHANGED <<jobVars, storage, lhVars, clVars>>

CmpNext ==
    \/ \E backend \in BackendNames : Compute_init(backend)
    \/ \E r \in RuntimeNames, m \in Memories, p \in Payloads : Compute_invoke(r, m, p)
    \/ \E r \in RuntimeNames, f \in DockerFiles, m \in Memories, t \in RtTimeouts :
          Compute_build_and_create_runtime(r, f, m, t)
    \/ \E r \in RuntimeNames, f \in DockerFiles : Compute_build_runtime(r, f)
    \/ \E r \in RuntimeNames, m \in Memories, t \in RtTimeouts : Compute_create_runtime(r, m, t)
    \/ \E r \in RuntimeNames, m \in Memories : Compute_delete_runtime(r, m)
    \/ Compute_delete_all_runtimes
    \/ \E r \in RuntimeNames \cup {"all"} : Compute_list_runtimes(r)
    \/ \E r \in RuntimeNames, m \in Memories : Compute_get_runtime_key(r, m)
    \/ Compute_del

CmpSpec == Init /\ [][CmpNext]_vars

\* the values the backend received, positional then keyword
Received(call) == call.args \o [i \in 1..Len(call.kwargs) |-> call.kwargs[i][2]]

\* C16: a failing construction raises and leaves no dispatcher; a dispatcher
\* holds an instance of the backend it was configured with, and that instance
\* does not change while the dispatcher lives.
C16_ConstructionFailsLoudlyBackendFixed ==
    [][ /\ cmp'.state = "ready"
           => (cmp'.handler \in KnownBackends /\ cmp'.handler = cmp'.backend)
        /\ (cmp.state = "ready" /\ cmp'.state = "ready") => cmp'.handler = cmp.handler
        /\ (cmp.state = "none" /\ cmp'.state = "none" /\ cmp_result' # cmp_result)
           => (cmp_result'.kind = "raised" /\ cmp_result'.op = "__init__")
        /\ (cmp_result'.op = "__init__" /\ cmp_result'.args[1] \notin KnownBackends)
           => (cmp_result'.kind = "raised" /\ cmp'.state = "none") ]_vars

C16_Witness ==
    /\ cmp.state = "none"
    /\ cmp_result = CallResult("raised", "__init__", <<"nosuch">>, "None", "None")
    /\ cmp_call.op = "__del__"

\* C17 as stated: every forwarding operation calls the same-named operation
\* of the held backend with the caller's arguments and returns what the
\* backend returned.
ForwardingOps == { "invoke", "build_and_create_runtime", "build_runtime",
                   "create_runtime", "list_runtimes", "get_runtime_key" }
C17_ForwardsAndReturnsBackendResult ==
    (cmp_result.kind = "returned" /\ cmp_result.op \in ForwardingOps)
        => /\ cmp_call.op = cmp_result.op
           /\ cmp_call.handler = cmp.handler
           /\ Received(cmp_call) = cmp_result.args
           /\ cmp_result.value = cmp_result.backend_value


\* ------------------------------------------------------ job.py: clean_job
\* bound on the number of temporary files left on disk
MaxTmp == 2

JobsToClean == { { <<"exec", "M000">> }, { <<"exec", "M000">>, <<"exec", "M001">> } }

\* tempfile.NamedTemporaryFile picks a name that is not in use
NewTmp == CHOOSE n \in 1..MaxTmp : n \notin cl_tmp /\ \A k \in 1..(n - 1) : k \in cl_tmp

\* job.py:295-297: delete=False, so a failing pickle.dump leaves the file
\* (a call starts only once the previous cleaning process has ended)
CleanJob(jobs_to_clean, clean_cloudobjects) ==
    /\ cl_pc = "idle"
    /\ cl_child.state # "running"
    /\ Cardinality(cl_tmp) < MaxTmp
    /\ \/ /\ cl_tmp' = cl_tmp \cup {NewTmp}
          /\ cl_child' = [state |-> "none", jobs |-> jobs_to_clean,
                          cloudobjects |-> clean_cloudobjects, jobs_path |-> NewTmp]
          /\ cl_pc' = "cl_popen"
          /\ cl_result' = Outcome("none", "")
       \/ /\ cl_result' = Outcome("raised", "NamedTemporaryFile")
          /\ UNCHANGED <<cl_pc, cl_tmp, cl_child>>
       \/ /\ cl_tmp' = cl_tmp \cup {NewTmp}
          /\ cl_result' = Outcome("raised", "pickle.dump")
          /\ UNCHANGED <<cl_pc, cl_child>>
    /\ UNCHANGED <<jobVars, storage, lhVars, cmpVars>>

\* job.py:328-329: os.popen starts the interpreter through the shell and
\* returns; a process that cannot be started raises OSError; clean_job has
\* no try/except and ends here
ClPopen ==
    /\ cl_pc = "cl_popen"
    /\ cl_pc' = "idle"
    /\ \/ /\ cl_child' = [cl_child EXCEPT !.state = "running"]
          /\ cl_result' = Outcome("returned", "clean_job")
       \/ /\ cl_child' = NoChild
          /\ cl_result' = Outcome("raised", "os.popen")
    /\ UNCHANGED cl_tmp
    /\ UNCHANGED <<jobVars, storage, lhVars, cmpVars>>

\* job.py:317-319: the keys below <JOBS_PREFIX>/<executor_id>/<job_id>
KeysOf(jobs) ==
    { k \in storage : \E j \in jobs : <<k[1], k[2], k[3]>> = <<JOBS_PREFIX, j[1], j[2]>> }

\* job.py:299-326: the script run by the child process; it removes the keys
\* of the jobs and then its temporary file, or fails on the way
ChildRun ==
    /\ cl_child.state = "running"
    /\ \/ /\ storage' = storage \ KeysOf(cl_child.jobs)
          /\ cl_tmp' = cl_tmp \ {cl_child.jobs_path}
          /\ cl_child' = [cl_child EXCEPT !.state = "done"]
       \/ /\ cl_child' = [cl_child EXCEPT !.state = "failed"]
          /\ UNCHANGED <<storage, cl_tmp>>
    /\ UNCHANGED <<cl_pc, cl_result>>
    /\ UNCHANGED <<jobVars, lhVars, cmpVars>>

CleanNext ==
    \/ \E t \in SeqThreads : Step(t, ConcDomain(t))
    \/ \E jobs \in JobsToClean, co \in BOOLEAN : CleanJob(jobs, co)
    \/ ClPopen
    \/ ChildRun

CleanSpec == ConcInit /\ [][CleanNext]_vars

\* C18 as stated: clean_job never fails its caller, whatever fails in the
\* cleanup, and it returns while the cleaning process is still running.
C18_CleanJobNeverBlocksNeverFails ==
    [][ /\ cl_result'.kind # "raised"
        /\ (cl_pc = "cl_popen" /\ cl_pc' = "idle") => cl_child'.state = "running" ]_vars


\* ------------------------------- specification for the reduce environment
\* a caller's mapping that already has the marker, with another value
MarkedEnv == [d |-> (REDUCE_MARKER :> Val("str", "no") @@ "A" :> PyTrue),
              none |-> FALSE]
ReduceEnvDomain == [ConcDomain(1) EXCEPT !.envs = ExtraEnvs \cup {MarkedEnv}]
ReduceEnvNext == \E t \in SeqThreads : Step(t, ReduceEnvDomain)
ReduceEnvSpec == ConcInit /\ [][ReduceEnvNext]_vars

\* C21: every descriptor returned by create_reduce_job has the marker
\* __PW_REDUCE_JOB in extra_env with the wrapper's value, whatever extra_env
\* the caller gave; the caller's other entries are kept and the caller's
\* mapping is as it was given.
C21_ReduceMarkerAlwaysSet ==
    \A t \in Threads :
        (Returned(t) /\ inp[t].kind = "reduce")
            => /\ REDUCE_MARKER \in DOMAIN jd[t].extra_env
               /\ jd[t].extra_env[REDUCE_MARKER].v = PyTrue.v
               /\ \A k \in (DOMAIN inp[t].given_env.d) \ {REDUCE_MARKER} :
                     /\ k \in DOMAIN jd[t].extra_env
                     /\ jd[t].extra_env[k].v = inp[t].given_env.d[k].v
               /\ inp[t].extra_env = inp[t].given_env

C21_Witness ==
    \E t \in Threads :
        /\ Returned(t)
        /\ inp[t].kind = "reduce"
        /\ inp[t].given_env = MarkedEnv
        /\ DOMAIN jd[t].extra_env = {REDUCE_MARKER, "A"}


\* ---------------------------------- specification for the module filters
\* config['pywren'] without the keys include_modules and exclude_modules,
\* with include_modules None, and with both keys naming modules
FilterConfigs ==
    LET base == [runtime |-> <<"rt">>, env |-> "docker", has_limit |-> FALSE,
                 data_limit |-> 0, runtime_timeout |-> 600, runtime_memory |-> 256]
    IN  { base,
          base @@ [include_modules |-> NoneNames],
          base @@ [include_modules |-> Names({"a"})],
          base @@ [include_modules |-> Names({"a"}), exclude_modules |-> Names({"b"})],
          base @@ [exclude_modules |-> Names({"b"})] }
FilterDomain ==
    [ConcDomain(1) EXCEPT !.includes = { Names({}), NoneNames, Names({"c"}) },
                          !.excludes = { Names({}), NoneNames, Names({"a"}) }]
FilterNext == \E t \in SeqThreads : Step(t, FilterDomain)
FilterSpec == InitWith(FilterConfigs) /\ [][FilterNext]_vars

\* C22 as stated: the serializer gets as exclude set the union of the
\* configured and the per-call exclude names, as include set the union of the
\* configured and the per-call include names, and a value without names when
\* neither level names an include (None and the empty set are both taken as
\* "no include filter" here).
C22_FiltersAreUnions ==
    \A t \in Threads :
        Serialized(t) =>
            LET inc_cfg == ConfigModules(config, "include_modules").s
                exc_cfg == ConfigModules(config, "exclude_modules").s
                inc == inc_cfg \cup inp[t].include_modules.s
                exc == exc_cfg \cup inp[t].exclude_modules.s
            IN  /\ ser[t].exc_modules = exc
                /\ IF inc = {}
                   THEN ser[t].inc_modules \in {NoneNames, Names({})}
                   ELSE ser[t].inc_modules = Names(inc)

====
